---------------------------- MODULE Spec2Model ----------------------------
(***************************************************************************)
(* A state-machine model of src/app.py (statefulmodal): the SQLite-backed  *)
(* Database class (allowed_emails, users, notes), the OAuth callback       *)
(* AppAuth.get_auth that reconciles a provider identity with the allow-    *)
(* list and the user registry, and the session guards.                     *)
(*                                                                         *)
(* Requests run concurrently (allow_concurrent_inputs=10), each Database   *)
(* method on a connection of its own.  The connection is opened with       *)
(* sqlite3's defaults: a SELECT runs in autocommit mode and holds no lock  *)
(* once its cursor is dropped; the first INSERT/UPDATE/DELETE opens the    *)
(* implicit transaction that conn.commit() ends.  Every write transaction  *)
(* of this program is one statement followed by the commit, and SQLite     *)
(* admits one writer at a time, so a statement and its commit are one      *)
(* atomic step; the SELECTs before it are steps of their own.              *)
(***************************************************************************)
EXTENDS Integers, Sequences, FiniteSets, TLC

(***************************************************************************)
(* Bounds of the model.                                                    *)
(***************************************************************************)
NProcs == 2        \* concurrent request handlers
NSessions == 2     \* browser sessions (cookies)
MaxTime == 1       \* last value of the one-second clock behind CURRENT_TIMESTAMP
MaxNotes == 3      \* notes rows ever inserted (AUTOINCREMENT ids 1..MaxNotes)

Procs == 1..NProcs
Sessions == 1..NSessions

(***************************************************************************)
(* Text.  An email is a sequence of characters.  Python's str.lower()      *)
(* folds every cased character; SQLite's built-in LOWER() folds the ASCII  *)
(* letters only.  "U+00C9" is E-acute and "U+00E9" its lower-case form.    *)
(***************************************************************************)
PyLowerChar(c) ==
    CASE c = "A" -> "a"
      [] c = "B" -> "b"
      [] c = "U+00C9" -> "U+00E9"
      [] OTHER -> c

SqlLowerChar(c) ==
    CASE c = "A" -> "a"
      [] c = "B" -> "b"
      [] OTHER -> c

PyLower(s) == [i \in DOMAIN s |-> PyLowerChar(s[i])]

SqlLower(s) == [i \in DOMAIN s |-> SqlLowerChar(s[i])]

\* Equality of two emails ignoring letter case.
CaseEq(x, y) == PyLower(x) = PyLower(y)

\* The emails a caller may present.
Emails ==
    { <<"a", "@", "x">>, <<"A", "@", "x">>, <<"b", "@", "x">>,
      <<"U+00C9", "@", "x">> }

Names == {"Ann"}

\* added_by of a direct Database.add_allowed_email call: the startup seed
\* and the init_admin command.  Text is a sequence, as an email is (the
\* add_email route gives the admin's email as added_by).
AddedBy == {<<"system">>, <<"cli">>}

VARIABLES
    allowed,    \* table allowed_emails, in rowid order: [email, added_by]
    users,      \* table users, in rowid order
    notes,      \* table notes, in rowid order
    noteSeq,    \* sqlite_sequence of notes: the largest id ever assigned
    now,        \* the clock, in seconds
    session,    \* session -> its bag of claims (a function from keys to values)
    call,       \* request handler -> the get_auth call it is in
    volumeUp,   \* whether volume.commit() succeeds
    schema,     \* the tables that exist in the database file
    last        \* the step taken last: the operation, its arguments, its outcome

vars ==
    <<allowed, users, notes, noteSeq, now, session, call, volumeUp, schema,
      last>>

\* The tables of _init_db, in the order of its CREATE TABLE statements.
TableOrder == <<"users", "allowed_emails", "notes">>
AllTables == {TableOrder[i] : i \in DOMAIN TableOrder}

\* A handler that is in no call.
Idle == [pc |-> "idle"]

\* Database.__init__ on a fresh volume: _init_db creates three empty tables.
\* The volume is up: volume.commit() returns.
Init ==
    /\ allowed = <<>>
    /\ users = <<>>
    /\ notes = <<>>
    /\ noteSeq = 0
    /\ now = 0
    /\ session = [s \in Sessions |-> <<>>]
    /\ call = [p \in Procs |-> Idle]
    /\ volumeUp = TRUE
    /\ schema = AllTables
    /\ last = [op |-> "init"]

\* CURRENT_TIMESTAMP has a resolution of one second.
Tick ==
    /\ now < MaxTime
    /\ now' = now + 1
    /\ last' = [op |-> "tick"]
    /\ UNCHANGED <<allowed, users, notes, noteSeq, session, call, volumeUp,
                 schema>>

(***************************************************************************)
(* Outcomes of a call: a returned value or a raised exception.             *)
(***************************************************************************)
NoneRet == [kind |-> "None"]
BoolRet(b) == [kind |-> "bool", value |-> b]
UserRet(u) == [kind |-> "User", user |-> u]
Raised(e) == [kind |-> "raise", exc |-> e]
Pending == [kind |-> "pending"]

\* The exit of a `with self._get_connection()` block whose body ended
\* without an exception: conn.commit(), then volume.commit(), which is not
\* wrapped in any try/except, then conn.close().  The body's result reaches
\* the caller only if volume.commit() does not raise.
ConnExit(ret) == IF volumeUp THEN ret ELSE Raised("VolumeCommitError")

\* A variant with the two commits in the other order: when volume.commit()
\* raises, conn.close() rolls the open transaction back.
CommittedIfCheckpointed(before, after) == IF volumeUp THEN after ELSE before

\* What a table is after a `with` block that wrote to it: conn.commit() runs
\* before volume.commit(), so the transaction stays applied whether or not
\* the checkpoint raises.
Committed(before, after) == after

\* SQL NULL in a timestamp column (the clock starts at 0).
Null == 0 - 1

\* datetime.now().isoformat(): local time in ISO format, not the text
\* CURRENT_TIMESTAMP stores.
PyIsoNow == [iso |-> now]

(***************************************************************************)
(* allowed_emails.                                                         *)
(***************************************************************************)
\* SELECT 1 FROM allowed_emails WHERE LOWER(email) = LOWER(?)
EmailAllowedIn(tbl, email) ==
    \E i \in DOMAIN tbl : SqlLower(tbl[i].email) = SqlLower(email)

\* A variant that also admits an email that already has a users row.
IsEmailAllowedOrKnown(email) ==
    \/ EmailAllowedIn(allowed, email)
    \/ \E i \in DOMAIN users : SqlLower(users[i].email) = SqlLower(email)

\* Database.is_email_allowed(email)
IsEmailAllowed(email) == EmailAllowedIn(allowed, email)

\* A variant with INSERT OR REPLACE: the conflicting row is deleted and the
\* new one inserted.
InsertOrReplaceAllowed(tbl, email, by) ==
    LET e == PyLower(email) IN
    Append(SelectSeq(tbl, LAMBDA r : r.email # e),
           [email |-> e, added_by |-> by])

\* INSERT OR IGNORE INTO allowed_emails (email, added_by) VALUES (?, ?) with
\* email.lower(): the row is dropped when it breaks UNIQUE(email), which
\* compares the stored text byte by byte.
InsertOrIgnoreAllowed(tbl, email, by) ==
    LET e == PyLower(email) IN
    IF \E i \in DOMAIN tbl : tbl[i].email = e
    THEN tbl
    ELSE Append(tbl, [email |-> e, added_by |-> by])

\* A variant whose DELETE has lost its WHERE clause.
DeleteAllowedAll(tbl, email) == <<>>

\* A variant that deletes by the text as given: WHERE email = ?
DeleteAllowedExact(tbl, email) ==
    SelectSeq(tbl, LAMBDA r : r.email # email)

\* DELETE FROM allowed_emails WHERE LOWER(email) = LOWER(?)
DeleteAllowed(tbl, email) ==
    SelectSeq(tbl, LAMBDA r : SqlLower(r.email) # SqlLower(email))

\* Database.add_allowed_email(email, added_by)
AddAllowedEmail(email, by) ==
    /\ allowed' = Committed(allowed, InsertOrIgnoreAllowed(allowed, email, by))
    /\ last' = [op |-> "add_allowed_email", email |-> email, added_by |-> by,
                ret |-> ConnExit(NoneRet)]
    /\ UNCHANGED <<users, notes, noteSeq, now, session, call, volumeUp,
                 schema>>

\* Database.remove_allowed_email(email).  The rowcount of the DELETE, which
\* the method does not read, is kept with the step.
RemoveAllowedEmail(email) ==
    /\ allowed' = Committed(allowed, DeleteAllowed(allowed, email))
    /\ last' = [op |-> "remove_allowed_email", email |-> email,
                rowcount |-> Len(allowed) - Len(DeleteAllowed(allowed, email)),
                ret |-> ConnExit(NoneRet)]
    /\ UNCHANGED <<users, notes, noteSeq, now, session, call, volumeUp,
                 schema>>

(***************************************************************************)
(* users.                                                                  *)
(***************************************************************************)
\* SELECT * FROM users WHERE LOWER(email) = LOWER(?), then fetchone(): the
\* first matching row in rowid order, or no row.
UserRowsByEmail(tbl, email) ==
    SelectSeq(tbl, LAMBDA r : SqlLower(r.email) = SqlLower(email))

\* A variant for a users table declared without UNIQUE(email).
UsersEmailNeverTaken(tbl, e) == FALSE

\* UNIQUE(email) of table users: an INSERT of this email fails.
UsersEmailTaken(tbl, e) == \E i \in DOMAIN tbl : tbl[i].email = e

\* INTEGER PRIMARY KEY AUTOINCREMENT: one more than the largest id ever
\* assigned.  No statement of the program deletes a users row, so the largest
\* id ever assigned is the largest id in the table.
NextUserId(tbl) ==
    IF tbl = <<>> THEN 1
    ELSE 1 + CHOOSE m \in {tbl[i].id : i \in DOMAIN tbl} :
                 \A i \in DOMAIN tbl : tbl[i].id <= m

\* A variant that stores the email as given, without email.lower().
NewUserRowAsGiven(tbl, email, name) ==
    [id |-> NextUserId(tbl), email |-> email, name |-> name,
     is_admin |-> FALSE, created_at |-> now, last_login |-> Null]

\* INSERT INTO users (email, name) VALUES (?, ?) with email.lower(): the
\* defaults fill is_admin (FALSE) and created_at (CURRENT_TIMESTAMP);
\* last_login stays NULL.
NewUserRow(tbl, email, name) ==
    [id |-> NextUserId(tbl), email |-> PyLower(email), name |-> name,
     is_admin |-> FALSE, created_at |-> now, last_login |-> Null]

\* A variant whose UPDATE also resets created_at.
TouchLastLoginAndCreated(tbl, id) ==
    [i \in DOMAIN tbl |->
        IF tbl[i].id = id
        THEN [tbl[i] EXCEPT !.last_login = now, !.created_at = now]
        ELSE tbl[i]]

\* UPDATE users SET last_login = CURRENT_TIMESTAMP WHERE id = ?
TouchLastLogin(tbl, id) ==
    [i \in DOMAIN tbl |->
        IF tbl[i].id = id THEN [tbl[i] EXCEPT !.last_login = now] ELSE tbl[i]]

\* UPDATE users SET is_admin = ? WHERE LOWER(email) = LOWER(?)
UpdateAdmin(tbl, email, value) ==
    [i \in DOMAIN tbl |->
        IF SqlLower(tbl[i].email) = SqlLower(email)
        THEN [tbl[i] EXCEPT !.is_admin = value]
        ELSE tbl[i]]

\* Database.set_admin(email, is_admin)
SetAdmin(email, value) ==
    /\ users' = Committed(users, UpdateAdmin(users, email, value))
    /\ last' = [op |-> "set_admin", email |-> email, value |-> value,
                ret |-> ConnExit(NoneRet)]
    /\ UNCHANGED <<allowed, notes, noteSeq, now, session, call, volumeUp,
                 schema>>

(***************************************************************************)
(* The session: a bag of claims kept in the session cookie.                *)
(***************************************************************************)
\* session[k] = v for every key of `claims` (dict item assignment).
SessionSet(bag, claims) ==
    [k \in DOMAIN bag \cup DOMAIN claims |->
        IF k \in DOMAIN claims THEN claims[k] ELSE bag[k]]

\* A variant that fails open: it never redirects.
RequireAuthOpen(bag) == "pass"

\* require_auth(session): None ("pass") or the redirect to /login.  An
\* absent key and an empty string are both falsy.
RequireAuth(bag) ==
    IF "user_email" \in DOMAIN bag /\ bag["user_email"] # <<>>
    THEN "pass"
    ELSE "/login"

\* A variant that looks the user up in the users table on every request.
RequireAdminFresh(bag) ==
    IF /\ "user_email" \in DOMAIN bag
       /\ \E i \in DOMAIN users :
             users[i].email = bag["user_email"] /\ users[i].is_admin
    THEN "pass"
    ELSE "/error?msg=Admin+access+required"

\* require_admin(session): None ("pass") or the redirect to /error.
RequireAdmin(bag) ==
    IF "is_admin" \in DOMAIN bag /\ bag["is_admin"] = TRUE
    THEN "pass"
    ELSE "/error?msg=Admin+access+required"

(***************************************************************************)
(* AppAuth.get_auth(info, ident, session, state), which calls              *)
(* Database.get_or_create_user(email, name).  Three steps, each one        *)
(* statement against the database:                                         *)
(*   GetAuthCheck   the email_verified test and is_email_allowed's SELECT, *)
(*                  on a connection of its own;                            *)
(*   SelectUser     the SELECT of the users row, on a second connection;   *)
(*   UpdateLogin or InsertUser, the commit, and the session claims.        *)
(* The request's session and info.name are first read in the last step,   *)
(* so they are inputs of that step.                                        *)
(***************************************************************************)
\* The redirects of get_auth.
RedirectHome == "/"
RedirectUnverified == "/error?msg=Email+not+verified"
RedirectDenied == "/error?msg=Access+denied"
ServerError == "500"

\* What a step of get_auth leaves in `last`: the email presented, what
\* get_or_create_user gave (Pending before it ends) and the response.
AuthEvent(step, email, ret, http) ==
    [op |-> "get_auth", step |-> step, email |-> email, ret |-> ret,
     http |-> http]

\* The same for the first step, with the email_verified it was given.
AuthStart(step, email, verified, ret, http) ==
    [op |-> "get_auth", step |-> step, email |-> email,
     verified |-> verified, ret |-> ret, http |-> http]

\* The same for the step that ends the call in session s.
AuthEnd(step, email, s, ret, http) ==
    [op |-> "get_auth", step |-> step, email |-> email, sess |-> s,
     ret |-> ret, http |-> http]

\* get_auth on what get_or_create_user gave it: the session claims of a
\* User, nothing of None, and nothing when the call raised.
SessionAfter(bag, ret) ==
    IF ret.kind = "User"
    THEN SessionSet(bag, [user_email |-> ret.user.email,
                          user_name |-> ret.user.name,
                          user_id |-> ret.user.id,
                          is_admin |-> ret.user.is_admin])
    ELSE bag

HttpAfter(ret) ==
    CASE ret.kind = "User" -> RedirectHome
      [] ret.kind = "None" -> RedirectDenied
      [] OTHER -> ServerError

\* Database.is_email_allowed(email) as get_or_create_user calls it.
AllowedCheck(email) == ConnExit(BoolRet(IsEmailAllowed(email)))

\* A variant that trusts the provider: the email_verified test is gone.
UnverifiedNever(verified) == FALSE

\* `not getattr(info, 'email_verified', False)`: an absent attribute counts
\* as false.
Unverified(verified) == ~verified

GetAuthCheck(p, email, verified) ==
    /\ call[p].pc = "idle"
    /\ IF Unverified(verified)
       THEN /\ last' = AuthStart("verify", email, verified, Pending,
                                 RedirectUnverified)
            /\ UNCHANGED call
       ELSE LET ok == AllowedCheck(email) IN
            IF ok.kind = "raise"
            THEN /\ last' = AuthStart("is_email_allowed", email, verified, ok,
                                      ServerError)
                 /\ UNCHANGED call
            ELSE IF ~ok.value
            THEN /\ last' = AuthStart("is_email_allowed", email, verified,
                                      NoneRet, RedirectDenied)
                 /\ UNCHANGED call
            ELSE /\ last' = AuthStart("is_email_allowed", email, verified,
                                      Pending, "")
                 /\ call' = [call EXCEPT ![p] =
                                [pc |-> "select", email |-> email]]
    /\ UNCHANGED <<allowed, users, notes, noteSeq, now, session, volumeUp,
                 schema>>

\* A variant that takes every row for an admin's.
RowReadAsAdmin(r) ==
    [id |-> r.id, email |-> r.email, name |-> r.name,
     is_admin |-> TRUE, created_at |-> r.created_at]

\* The columns of the row that get_or_create_user reads after the SELECT.
RowRead(r) ==
    [id |-> r.id, email |-> r.email, name |-> r.name,
     is_admin |-> r.is_admin, created_at |-> r.created_at]

\* The SELECT of get_or_create_user: the row is kept for the statement
\* that follows.
SelectUser(p) ==
    /\ call[p].pc = "select"
    /\ LET rows == UserRowsByEmail(users, call[p].email) IN
       call' = [call EXCEPT ![p] =
                   IF rows = <<>>
                   THEN [pc |-> "insert", email |-> call[p].email]
                   ELSE [pc |-> "update", email |-> call[p].email,
                         row |-> RowRead(rows[1])]]
    /\ last' = AuthEvent("select", call[p].email, Pending, "")
    /\ UNCHANGED <<allowed, users, notes, noteSeq, now, session, volumeUp,
                 schema>>

\* `if row:` the UPDATE of last_login by the id read before, the commit,
\* and the User built from the row as it was read.
UpdateLogin(p, s) ==
    /\ call[p].pc = "update"
    /\ LET row == call[p].row
           ret == ConnExit(UserRet([id |-> row.id, email |-> row.email,
                                    name |-> row.name,
                                    is_admin |-> row.is_admin,
                                    created_at |-> row.created_at,
                                    last_login |-> PyIsoNow]))
       IN /\ users' = Committed(users, TouchLastLogin(users, row.id))
          /\ session' = [session EXCEPT ![s] = SessionAfter(session[s], ret)]
          /\ last' = AuthEnd("update", call[p].email, s, ret, HttpAfter(ret))
    /\ call' = [call EXCEPT ![p] = Idle]
    /\ UNCHANGED <<allowed, notes, noteSeq, now, volumeUp,
                 schema>>

\* The users table after INSERT INTO users (email, name) of a new row, or
\* <<>> when the statement raises sqlite3.IntegrityError on UNIQUE(email).
InsertedUsers(tbl, email, name) ==
    IF UsersEmailTaken(tbl, PyLower(email))
    THEN <<>>
    ELSE Append(tbl, NewUserRow(tbl, email, name))

\* `else:` the INSERT.  Nothing catches the IntegrityError: conn.close()
\* rolls the transaction back and the exception leaves get_auth.
InsertUser(p, s, name) ==
    /\ call[p].pc = "insert"
    /\ LET email == call[p].email
           tbl == InsertedUsers(users, email, name)
       IN
       IF tbl = <<>>
       THEN /\ last' = AuthEnd("insert", email, s, Raised("IntegrityError"),
                               ServerError)
            /\ UNCHANGED <<users, session>>
       ELSE LET ret == ConnExit(UserRet([id |-> tbl[Len(tbl)].id,
                                         email |-> PyLower(email),
                                         name |-> name, is_admin |-> FALSE,
                                         created_at |-> PyIsoNow,
                                         last_login |-> PyIsoNow]))
            IN /\ users' = Committed(users, tbl)
               /\ session' = [session EXCEPT ![s] =
                                 SessionAfter(session[s], ret)]
               /\ last' = AuthEnd("insert", email, s, ret, HttpAfter(ret))
    /\ call' = [call EXCEPT ![p] = Idle]
    /\ UNCHANGED <<allowed, notes, noteSeq, now, volumeUp,
                 schema>>

(***************************************************************************)
(* The identity flow: logins by every handler, in any interleaving with    *)
(* one another and with the allow-list operations.                         *)
(***************************************************************************)
RaceEmails == { <<"a", "@", "x">>, <<"A", "@", "x">>, <<"U+00C9", "@", "x">> }

Next ==
    \/ \E p \in Procs, e \in RaceEmails, v \in BOOLEAN : GetAuthCheck(p, e, v)
    \/ \E p \in Procs : SelectUser(p)
    \/ \E p \in Procs : UpdateLogin(p, 1)
    \/ \E p \in Procs, n \in Names : InsertUser(p, 1, n)
    \/ \E e \in RaceEmails, by \in AddedBy : AddAllowedEmail(e, by)
    \/ \E e \in RaceEmails : RemoveAllowedEmail(e)

Spec == Init /\ [][Next]_vars

(***************************************************************************)
(* Properties of the identity flow.                                        *)
(***************************************************************************)
\* The allow-list holds the email, compared ignoring letter case.
InAllowList(tbl, email) == \E i \in DOMAIN tbl : CaseEq(tbl[i].email, email)

\* The rows of users with this email, compared ignoring letter case.
UserRowsOf(tbl, email) == {i \in DOMAIN tbl : CaseEq(tbl[i].email, email)}

\* The step taken last was is_email_allowed inside get_or_create_user.
CheckedLast(l) == l.op = "get_auth" /\ l.step = "is_email_allowed"

\* C1: get_or_create_user(E, name) for an email E that is not in
\* allowed_emails, compared ignoring case, returns None and leaves the users
\* table as it was: no row inserted and no row changed, a row with email E
\* included.
C1_DeniedOutsideAllowList ==
    [][ (CheckedLast(last') /\ ~InAllowList(allowed, last'.email))
            => (last'.ret = NoneRet /\ users' = users) ]_vars

\* C1 witness: a call was denied for an email that has a users row.
C1_Witness ==
    /\ CheckedLast(last)
    /\ last.ret = NoneRet
    /\ ~InAllowList(allowed, last.email)
    /\ UserRowsOf(users, last.email) # {}

\* C2: the users table never holds two rows for one email, and once a
\* get_or_create_user call for a new email has run its INSERT (concurrent
\* calls interleaved in any order) it holds exactly one.
C2_UpsertOnce ==
    \A e \in Emails :
        /\ Cardinality(UserRowsOf(users, e)) <= 1
        /\ (last.op = "get_auth" /\ last.step = "insert" /\ last.email = e)
               => Cardinality(UserRowsOf(users, e)) = 1

\* C2 witness: two calls for one new email raced, the second INSERT met
\* the first call's row, and the table holds one row for the email.
C2_Witness ==
    /\ last.op = "get_auth" /\ last.step = "insert"
    /\ last.ret.kind = "raise" /\ last.ret.exc = "IntegrityError"
    /\ Cardinality(UserRowsOf(users, last.email)) = 1

\* C3: when two get_or_create_user calls for one new email race and the
\* later INSERT collides with UNIQUE(email), the losing call re-reads and
\* returns the existing User: no call ends in an error.
C3_CollisionReturnsUser ==
    (last.op = "get_auth" /\ last.step \in {"insert", "update"})
        => last.ret.kind = "User"

\* C4: every users row is inserted, and every login recorded, at a moment
\* when its email is in allowed_emails: the allow-list check and the write
\* act as one atomic step.
C4_WrittenWhileAllowed ==
    [][ (last'.op = "get_auth" /\ users' # users)
            => InAllowList(allowed, last'.email) ]_vars

\* C8: remove_allowed_email(E) leaves the users table unchanged and E
\* unmatched in allowed_emails; E stays unmatched until add_allowed_email is
\* called for E in some letter case; and get_or_create_user(E, _) returns
\* None, touching no users row, whenever its check finds E unmatched.
C8_RevocationNotRetroactive ==
    [][ \A e \in Emails :
          /\ (last'.op = "remove_allowed_email" /\ last'.email = e)
                => (users' = users /\ ~EmailAllowedIn(allowed', e))
          /\ ( /\ ~EmailAllowedIn(allowed, e)
               /\ ~(last'.op = "add_allowed_email" /\ CaseEq(last'.email, e)) )
                => ~EmailAllowedIn(allowed', e)
          /\ (CheckedLast(last') /\ last'.email = e
                 /\ ~EmailAllowedIn(allowed, e))
                => (last'.ret = NoneRet /\ users' = users)
      ]_vars

\* C8 witness: an email was removed from the allow-list in another letter
\* case than stored, while a users row for it exists.
C8_Witness ==
    /\ last.op = "remove_allowed_email"
    /\ last.email # PyLower(last.email)
    /\ ~InAllowList(allowed, last.email)
    /\ UserRowsOf(users, last.email) # {}

\* C9: add_allowed_email(E, by) raises no error and leaves exactly one
\* allowed_emails row for E, compared ignoring case; when there was one
\* already the table is unchanged, so the row keeps the added_by of the
\* first add.
C9_AddIdempotent ==
    [][ last'.op = "add_allowed_email" =>
          LET e == last'.email
              before == {i \in DOMAIN allowed : CaseEq(allowed[i].email, e)}
              after == {i \in DOMAIN allowed' : CaseEq(allowed'[i].email, e)}
          IN /\ last'.ret = NoneRet
             /\ Cardinality(after) = 1
             /\ before # {} => allowed' = allowed
             /\ before = {} =>
                  \A i \in after : allowed'[i].added_by = last'.added_by
      ]_vars

\* C9 witness: an email was added again, in another letter case and with
\* another added_by than the row it has.
C9_Witness ==
    /\ last.op = "add_allowed_email"
    /\ \E i \in DOMAIN allowed :
          /\ CaseEq(allowed[i].email, last.email)
          /\ allowed[i].email # last.email
          /\ allowed[i].added_by # last.added_by

\* C10: get_or_create_user called with any letter-case variant of an
\* allow-listed email succeeds (it is not denied); all variants resolve to
\* one users row, whose email is the lower-cased form.
C10_CaseVariantsSucceed ==
    /\ (CheckedLast(last) /\ InAllowList(allowed, last.email))
           => last.ret # NoneRet
    /\ \A i \in DOMAIN users : users[i].email = PyLower(users[i].email)
    /\ \A e \in Emails : Cardinality(UserRowsOf(users, e)) <= 1

\* C19: in every reachable state every stored email is in lower case, no
\* two users rows have emails equal ignoring letter case, and no two
\* allowed_emails rows have.
C19_EmailsUnique ==
    /\ \A i \in DOMAIN users : users[i].email = PyLower(users[i].email)
    /\ \A i \in DOMAIN allowed : allowed[i].email = PyLower(allowed[i].email)
    /\ \A i, j \in DOMAIN users :
          CaseEq(users[i].email, users[j].email) => i = j
    /\ \A i, j \in DOMAIN allowed :
          CaseEq(allowed[i].email, allowed[j].email) => i = j

\* C19 witness: with two emails in the allow-list and a users row, an
\* email was added in upper case that has a row from an earlier add.
C19_Witness ==
    /\ last.op = "add_allowed_email"
    /\ last.email # PyLower(last.email)
    /\ \E i \in DOMAIN allowed :
          /\ allowed[i].email = PyLower(last.email)
          /\ allowed[i].added_by # last.added_by
    /\ Len(allowed) = 2
    /\ Len(users) = 1

\* The step taken last was the first step of a get_auth call.
StartedLast(l) ==
    l.op = "get_auth" /\ l.step \in {"verify", "is_email_allowed"}

\* C11: get_auth given email_verified = false ends at once with the denial
\* redirect, whatever allowed_emails holds: the call takes no further step,
\* no users row is created or updated and no session claim is set.
C11_UnverifiedRejected ==
    [][ (StartedLast(last') /\ ~last'.verified)
            => /\ last'.http = RedirectUnverified
               /\ call' = call
               /\ users' = users
               /\ session' = session ]_vars

\* C11 witness: an unverified login was rejected for an email that is in
\* the allow-list and has a users row.
C11_Witness ==
    /\ StartedLast(last)
    /\ ~last.verified
    /\ last.http = RedirectUnverified
    /\ IsEmailAllowed(last.email)
    /\ UserRowsOf(users, last.email) # {}

(***************************************************************************)
(* Sessions: one handler serving logins into every session, with the       *)
(* allow-list and set_admin changing between its steps.                    *)
(***************************************************************************)
SessionEmails == { <<"A", "@", "x">>, <<"b", "@", "x">> }

NextSession ==
    \/ \E e \in SessionEmails, v \in BOOLEAN : GetAuthCheck(1, e, v)
    \/ SelectUser(1)
    \/ \E s \in Sessions : UpdateLogin(1, s)
    \/ \E s \in Sessions, n \in Names : InsertUser(1, s, n)
    \/ \E e \in SessionEmails : AddAllowedEmail(e, <<"system">>)
    \/ \E e \in SessionEmails : RemoveAllowedEmail(e)
    \/ \E e \in SessionEmails, v \in BOOLEAN : SetAdmin(e, v)

SpecSession == Init /\ [][NextSession]_vars

\* The step taken last was a login that ended with a User in session s.
LoggedInto(l, s) ==
    /\ l.op = "get_auth"
    /\ l.step \in {"insert", "update"}
    /\ l.sess = s
    /\ l.ret.kind = "User"

\* C7: the outcome of require_admin for a session is the is_admin value
\* captured at the session's last successful login: a login sets it to the
\* is_admin of the User it got, and no other step (set_admin to TRUE or to
\* FALSE included) changes it.
C7_AdminClaimFixedAtLogin ==
    [][ \A s \in Sessions :
          /\ LoggedInto(last', s)
                => ((RequireAdmin(session'[s]) = "pass")
                        <=> last'.ret.user.is_admin)
          /\ ~LoggedInto(last', s)
                => RequireAdmin(session'[s]) = RequireAdmin(session[s])
      ]_vars

\* C7 witness: set_admin ran after two sessions were established: one still
\* fails require_admin though its user is an admin in the users table, the
\* other still passes though its user is no admin any more.
C7_Witness ==
    /\ last.op = "set_admin"
    /\ \E s, t \in Sessions :
          /\ RequireAuth(session[s]) = "pass"
          /\ RequireAdmin(session[s]) # "pass"
          /\ \E i \in DOMAIN users :
                users[i].id = session[s]["user_id"] /\ users[i].is_admin
          /\ RequireAdmin(session[t]) = "pass"
          /\ \E i \in DOMAIN users :
                users[i].id = session[t]["user_id"] /\ ~users[i].is_admin

\* C21: get_or_create_user never grants admin.  The row it creates, and the
\* User it returns for it, have is_admin = false.  Its SELECT reads the
\* stored row; the login of an existing user adds no row, changes nothing of
\* the row but last_login and returns the is_admin it read.  No step but
\* set_admin changes the is_admin of a row.
C21_LoginNeverGrantsAdmin ==
    [][ /\ (last'.op = "get_auth" /\ last'.step = "insert"
                /\ last'.ret.kind = "User")
              => /\ Len(users') = Len(users) + 1
                 /\ ~users'[Len(users')].is_admin
                 /\ ~last'.ret.user.is_admin
                 /\ \A i \in DOMAIN users : users'[i] = users[i]
        /\ (last'.op = "get_auth" /\ last'.step = "select")
              => \A p \in Procs :
                    call'[p].pc = "update" =>
                        \E i \in DOMAIN users :
                            /\ CaseEq(users[i].email, last'.email)
                            /\ call'[p].row.id = users[i].id
                            /\ call'[p].row.is_admin = users[i].is_admin
        /\ (last'.op = "get_auth" /\ last'.step = "update")
              => /\ Len(users') = Len(users)
                 /\ \A i \in DOMAIN users :
                       /\ users'[i].id = users[i].id
                       /\ users'[i].email = users[i].email
                       /\ users'[i].name = users[i].name
                       /\ users'[i].is_admin = users[i].is_admin
                       /\ users'[i].created_at = users[i].created_at
                 /\ \E p \in Procs :
                       /\ call[p].pc = "update" /\ call'[p] = Idle
                       /\ last'.ret.user.id = call[p].row.id
                       /\ last'.ret.user.is_admin = call[p].row.is_admin
        /\ last'.op # "set_admin"
              => \A i \in DOMAIN users :
                    users'[i].is_admin = users[i].is_admin
      ]_vars

\* C21 witness: an admin logged in again: the User returned and the
\* session claim are admin as the stored row is, beside a second row that
\* is no admin.
C21_Witness ==
    /\ last.op = "get_auth" /\ last.step = "update"
    /\ last.ret.user.is_admin
    /\ session[last.sess]["is_admin"] = TRUE
    /\ \E i, j \in DOMAIN users :
          /\ users[i].id = last.ret.user.id
          /\ users[i].is_admin
          /\ users[i].last_login = now
          /\ ~users[j].is_admin

(***************************************************************************)
(* notes.                                                                  *)
(***************************************************************************)
\* The user_id and content arguments of the notes methods.
NoteUsers == {1, 2}
Contents == {"note"}

\* The rows of get_notes.
RowsRet(rows) == [kind |-> "rows", rows |-> rows]

\* INSERT INTO notes (user_id, content) VALUES (?, ?): AUTOINCREMENT gives
\* the id after the largest ever assigned, created_at is CURRENT_TIMESTAMP.
InsertNote(tbl, seq, user_id, content) ==
    Append(tbl, [id |-> seq + 1, user_id |-> user_id, content |-> content,
                 created_at |-> now])

\* Database.add_note(user_id, content): returns cursor.lastrowid.
AddNote(user_id, content) ==
    /\ noteSeq < MaxNotes
    /\ notes' = Committed(notes, InsertNote(notes, noteSeq, user_id, content))
    /\ noteSeq' = Committed(noteSeq, noteSeq + 1)
    /\ last' = [op |-> "add_note", user_id |-> user_id,
                ret |-> ConnExit([kind |-> "int", value |-> noteSeq + 1])]
    /\ UNCHANGED <<allowed, users, now, session, call, volumeUp,
                 schema>>

\* SELECT * FROM notes WHERE user_id = ? ORDER BY created_at DESC: the
\* orders SQL allows.  created_at is the only sort key, so rows of one
\* second may come in any order (SQLite returns them in rowid order).
NotesOrders(tbl, user_id) ==
    LET rows == SelectSeq(tbl, LAMBDA r : r.user_id = user_id)
        n == Len(rows)
        perms == {f \in [1..n -> 1..n] : \A i, j \in 1..n : f[i] = f[j] => i = j}
    IN { [i \in 1..n |-> rows[f[i]]] : f \in
           {g \in perms : \A i, j \in 1..n :
               i < j => rows[g[i]].created_at >= rows[g[j]].created_at} }

\* Database.get_notes(user_id)
GetNotes(user_id) ==
    /\ \E rows \in NotesOrders(notes, user_id) :
          last' = [op |-> "get_notes", user_id |-> user_id,
                   ret |-> ConnExit(RowsRet(rows))]
    /\ UNCHANGED <<allowed, users, notes, noteSeq, now, session, call, volumeUp,
                 schema>>

\* A variant that deletes by the note's id alone: WHERE id = ?
NoteRowsById(tbl, note_id, user_id) ==
    {i \in DOMAIN tbl : tbl[i].id = note_id}

\* The rows DELETE FROM notes WHERE id = ? AND user_id = ? removes.
NoteRowsOwned(tbl, note_id, user_id) ==
    {i \in DOMAIN tbl : tbl[i].id = note_id /\ tbl[i].user_id = user_id}

\* Database.delete_note(note_id, user_id): returns cursor.rowcount > 0.
DeleteNote(note_id, user_id) ==
    /\ LET hit == NoteRowsOwned(notes, note_id, user_id) IN
       /\ notes' = Committed(notes, SelectSeq(notes, LAMBDA r :
                                   \A i \in hit : notes[i].id # r.id))
       /\ last' = [op |-> "delete_note", note_id |-> note_id,
                   user_id |-> user_id, ret |-> ConnExit(BoolRet(hit # {}))]
    /\ UNCHANGED <<allowed, users, noteSeq, now, session, call, volumeUp,
                 schema>>

(***************************************************************************)
(* The note repository: the notes methods at any times of the clock.       *)
(***************************************************************************)
NextNotes ==
    \/ \E u \in NoteUsers, c \in Contents : AddNote(u, c)
    \/ \E u \in NoteUsers : GetNotes(u)
    \/ \E n \in 1..MaxNotes, u \in NoteUsers : DeleteNote(n, u)
    \/ Tick

SpecNotes == Init /\ [][NextNotes]_vars

\* C5: delete_note(noteId, userId) returns true and removes the note if a
\* note with that id exists and its user_id is userId; otherwise it returns
\* false and leaves the notes table unchanged.
C5_DeleteOwnedOnly ==
    [][ last'.op = "delete_note" =>
          LET owned == \E i \in DOMAIN notes :
                          /\ notes[i].id = last'.note_id
                          /\ notes[i].user_id = last'.user_id
          IN /\ last'.ret = BoolRet(owned)
             /\ owned => /\ Len(notes') = Len(notes) - 1
                         /\ \A i \in DOMAIN notes' :
                               notes'[i].id # last'.note_id
                         /\ notes' = SelectSeq(notes, LAMBDA r :
                                                   r.id # last'.note_id)
             /\ ~owned => notes' = notes
      ]_vars

\* C5 witness: a delete by another user than the owner returned false and
\* the note is still there.
C5_Witness ==
    /\ last.op = "delete_note"
    /\ last.ret = BoolRet(FALSE)
    /\ \E i \in DOMAIN notes :
          notes[i].id = last.note_id /\ notes[i].user_id # last.user_id

\* C6: get_notes(user) returns the user's notes in reverse insertion order
\* (N3, N2, N1 after add_note of N1, N2, N3), whenever they were added, the
\* same second included.
C6_ReverseInsertionOrder ==
    last.op = "get_notes" =>
        \A i, j \in DOMAIN last.ret.rows :
            i < j => last.ret.rows[i].id > last.ret.rows[j].id

(***************************************************************************)
(* The Store: every Database method, called one at a time, with the clock  *)
(* standing still.                                                         *)
(***************************************************************************)
MaxStoreNotes == 1     \* notes rows ever inserted in the Store runs

\* Database.__init__ at a (re)start of the container: _init_db runs its
\* three CREATE TABLE IF NOT EXISTS, which leave a table that exists.
InitDb ==
    /\ schema' = AllTables
    /\ last' = [op |-> "init_db", ret |-> ConnExit(NoneRet)]
    /\ UNCHANGED <<allowed, users, notes, noteSeq, now, session, call, volumeUp>>

\* The emails of the Store runs: an ASCII one and the two letter cases of
\* a non-ASCII one.
StoreEmails ==
    { <<"A", "@", "x">>, <<"U+00C9", "@", "x">>, <<"U+00E9", "@", "x">> }

NextStore ==
    \/ \E e \in StoreEmails, v \in BOOLEAN : GetAuthCheck(1, e, v)
    \/ SelectUser(1)
    \/ UpdateLogin(1, 1)
    \/ \E n \in Names : InsertUser(1, 1, n)
    \/ \E e \in StoreEmails : AddAllowedEmail(e, <<"system">>)
    \/ \E e \in StoreEmails : RemoveAllowedEmail(e)
    \/ \E e \in StoreEmails, v \in BOOLEAN : SetAdmin(e, v)
    \/ \E u \in NoteUsers, c \in Contents :
          noteSeq < MaxStoreNotes /\ AddNote(u, c)
    \/ \E n \in 1..MaxStoreNotes, u \in NoteUsers : DeleteNote(n, u)
    \/ InitDb

SpecStore == Init /\ [][NextStore]_vars

\* C15: set_admin(email, value) raises no error, sets is_admin to value on
\* the users row whose email is `email` ignoring letter case, and changes
\* nothing else: no other column, no other row, no row count, no other
\* table.  With no such row it changes nothing.
C15_SetAdminFrame ==
    [][ last'.op = "set_admin" =>
          /\ last'.ret = NoneRet
          /\ Len(users') = Len(users)
          /\ \A i \in DOMAIN users :
                users'[i] = IF CaseEq(users[i].email, last'.email)
                            THEN [users[i] EXCEPT !.is_admin = last'.value]
                            ELSE users[i]
          /\ allowed' = allowed
          /\ notes' = notes
          /\ session' = session
      ]_vars

(***************************************************************************)
(* The allow-list: adds and removes of every email in every letter case,   *)
(* with logins and notes in between.                                       *)
(***************************************************************************)
NextAllowList ==
    \/ \E e \in Emails : AddAllowedEmail(e, <<"system">>)
    \/ \E e \in Emails : RemoveAllowedEmail(e)
    \/ \E e \in Emails : GetAuthCheck(1, e, TRUE)
    \/ SelectUser(1)
    \/ UpdateLogin(1, 1)
    \/ \E n \in Names : InsertUser(1, 1, n)
    \/ \E u \in NoteUsers, c \in Contents :
          noteSeq < MaxStoreNotes /\ AddNote(u, c)

SpecAllowList == Init /\ [][NextAllowList]_vars

\* C14: remove_allowed_email(E) raises no error and leaves users and notes
\* unchanged.  When allowed_emails has no row for E (ignoring case) it is
\* left unchanged; in any case the rows of other emails are kept and no row
\* is left that a second remove_allowed_email(E) would delete: removing
\* twice gives what removing once gives.
C14_RemoveIdempotent ==
    [][ last'.op = "remove_allowed_email" =>
          LET e == last'.email IN
          /\ last'.ret = NoneRet
          /\ users' = users
          /\ notes' = notes
          /\ ~InAllowList(allowed, e) => allowed' = allowed
          /\ \A i \in DOMAIN allowed :
                ~CaseEq(allowed[i].email, e)
                    => \E j \in DOMAIN allowed' : allowed'[j] = allowed[i]
          /\ ~EmailAllowedIn(allowed', e)
      ]_vars

\* C14 witness: an email with no row was removed (the DELETE hit no row)
\* while allowed_emails, users and notes all held rows.
C14_Witness ==
    /\ last.op = "remove_allowed_email"
    /\ last.rowcount = 0
    /\ last.ret = NoneRet
    /\ allowed # <<>>
    /\ users # <<>>
    /\ notes # <<>>

(***************************************************************************)
(* The Store on a volume whose commit may fail at any call, the clock      *)
(* running.                                                                *)
(***************************************************************************)
\* volume.commit() starts or stops raising.
VolumeFlip ==
    /\ volumeUp' = ~volumeUp
    /\ last' = [op |-> "volume"]
    /\ UNCHANGED <<allowed, users, notes, noteSeq, now, session, call, schema>>

FaultEmails == { <<"A", "@", "x">> }

NextFault ==
    \/ \E e \in FaultEmails, v \in BOOLEAN : GetAuthCheck(1, e, v)
    \/ SelectUser(1)
    \/ UpdateLogin(1, 1)
    \/ \E n \in Names : InsertUser(1, 1, n)
    \/ \E e \in FaultEmails : AddAllowedEmail(e, <<"system">>)
    \/ \E e \in FaultEmails : RemoveAllowedEmail(e)
    \/ \E e \in FaultEmails, v \in BOOLEAN : SetAdmin(e, v)
    \/ \E u \in NoteUsers, c \in Contents :
          noteSeq < MaxStoreNotes /\ AddNote(u, c)
    \/ \E u \in NoteUsers : GetNotes(u)
    \/ \E n \in 1..MaxStoreNotes, u \in NoteUsers : DeleteNote(n, u)
    \/ InitDb
    \/ VolumeFlip
    \/ Tick

SpecFault == Init /\ [][NextFault]_vars

\* The call that made the last step ended with volume.commit()'s exception.
CheckpointFailed(l) ==
    /\ "ret" \in DOMAIN l
    /\ l.ret.kind = "raise"
    /\ l.ret.exc = "VolumeCommitError"

\* The step taken last was the statement and commit of a writing call.
WroteLast(l) ==
    \/ l.op \in {"add_allowed_email", "remove_allowed_email", "set_admin",
                 "add_note", "delete_note"}
    \/ l.op = "get_auth" /\ l.step \in {"insert", "update"}

\* C12: a failure of volume.commit() after the database commit is not
\* propagated: no writing Database operation ends with the checkpoint's
\* exception, each returns its normal result to its caller.
C12_CheckpointFailureNotPropagated ==
    WroteLast(last) => ~CheckpointFailed(last)

\* The step taken last was a call of a read-only Database operation.
ReadLast(l) ==
    \/ l.op = "get_notes"
    \/ l.op = "get_auth" /\ l.step = "is_email_allowed"

\* C23: the read-only operations do not depend on the checkpoint: a call of
\* is_email_allowed or get_notes returns its result even while
\* volume.commit() fails.
C23_ReadsIgnoreCheckpoint ==
    ReadLast(last) => ~CheckpointFailed(last)

\* C13: a write whose volume.commit() failed stays applied.  The row it
\* wrote is in the table right after the call (the row it deleted is not),
\* table rows leave only by a DELETE of a later call, and a read that
\* returns gives what the tables hold.
C13_WriteSurvivesCheckpointFailure ==
    [][ /\ (CheckpointFailed(last') /\ last'.op = "add_allowed_email")
              => EmailAllowedIn(allowed', last'.email)
        /\ (CheckpointFailed(last') /\ last'.op = "remove_allowed_email")
              => ~EmailAllowedIn(allowed', last'.email)
        /\ (CheckpointFailed(last') /\ last'.op = "set_admin")
              => \A i \in DOMAIN users' :
                    CaseEq(users'[i].email, last'.email)
                        => users'[i].is_admin = last'.value
        /\ (CheckpointFailed(last') /\ last'.op = "get_auth"
                /\ last'.step = "insert")
              => /\ Len(users') = Len(users) + 1
                 /\ users'[Len(users')].email = PyLower(last'.email)
        /\ (CheckpointFailed(last') /\ last'.op = "get_auth"
                /\ last'.step = "update")
              => \E i \in DOMAIN users' :
                    /\ CaseEq(users'[i].email, last'.email)
                    /\ users'[i].last_login = now
        /\ (CheckpointFailed(last') /\ last'.op = "add_note")
              => /\ Len(notes') = Len(notes) + 1
                 /\ notes'[Len(notes')].user_id = last'.user_id
        /\ (CheckpointFailed(last') /\ last'.op = "delete_note")
              => \A i \in DOMAIN notes' :
                    ~(notes'[i].id = last'.note_id
                        /\ notes'[i].user_id = last'.user_id)
        /\ last'.op # "remove_allowed_email"
              => \A i \in DOMAIN allowed :
                    \E j \in DOMAIN allowed' : allowed'[j] = allowed[i]
        /\ \A i \in DOMAIN users :
              \E j \in DOMAIN users' : users'[j].id = users[i].id
        /\ last'.op # "delete_note"
              => \A i \in DOMAIN notes :
                    \E j \in DOMAIN notes' : notes'[j] = notes[i]
        /\ (last'.op = "get_notes" /\ last'.ret.kind = "rows")
              => {r.id : r \in {last'.ret.rows[k] : k \in DOMAIN last'.ret.rows}}
                   = {notes[i].id : i \in
                        {k \in DOMAIN notes : notes[k].user_id = last'.user_id}}
        /\ (CheckedLast(last') /\ ~CheckpointFailed(last'))
              => (last'.ret = NoneRet <=> ~EmailAllowedIn(allowed, last'.email))
      ]_vars

\* C13 witness: add_note ended with the checkpoint's exception and the
\* note is in the table; so is a users row whose INSERT ended the same way.
C13_Witness ==
    /\ CheckpointFailed(last)
    /\ last.op = "add_note"
    /\ \E i \in DOMAIN notes :
          notes[i].id = noteSeq /\ notes[i].user_id = last.user_id
    /\ users # <<>>
    /\ session[1] = <<>>

\* C20: no operation (login, allow-list add and remove, set_admin, note add
\* and delete, _init_db at a restart), whether or not its checkpoint fails,
\* deletes a users row or changes the id, email or created_at of one.
C20_UsersRowsKept ==
    [][ /\ Len(users') >= Len(users)
        /\ \A i \in DOMAIN users :
              /\ users'[i].id = users[i].id
              /\ users'[i].email = users[i].email
              /\ users'[i].created_at = users[i].created_at
      ]_vars

\* C20 witness: a users row created at an earlier second has since been
\* made admin and has just had its last_login updated.
C20_Witness ==
    /\ last.op = "get_auth" /\ last.step = "update"
    /\ \E i \in DOMAIN users :
          /\ users[i].created_at < now
          /\ users[i].last_login = now
          /\ users[i].is_admin
    /\ notes # <<>>

(***************************************************************************)
(* The admin routes.  Each is one request: the two guards, then the        *)
(* Database calls of the handler, one after the other.                     *)
(***************************************************************************)
Ok == "200"

\* The orders of n rows.
Perms(n) == {f \in [1..n -> 1..n] : \A i, j \in 1..n : f[i] = f[j] => i = j}

\* A variant that looks up allow-listed users only.
GetUserByEmailIfAllowed(email) ==
    LET rows == UserRowsByEmail(users, email) IN
    ConnExit(IF rows = <<>> \/ ~IsEmailAllowed(email)
             THEN NoneRet ELSE UserRet(rows[1]))

\* Database.get_user_by_email(email)
GetUserByEmail(email) ==
    LET rows == UserRowsByEmail(users, email) IN
    ConnExit(IF rows = <<>> THEN NoneRet ELSE UserRet(rows[1]))

\* A variant that takes the oldest users row whatever the session holds.
GetCurrentUserFirst(bag) ==
    IF "user_email" \in DOMAIN bag /\ bag["user_email"] # <<>>
    THEN ConnExit(IF users = <<>> THEN NoneRet ELSE UserRet(users[1]))
    ELSE NoneRet

\* get_current_user(session)
GetCurrentUser(bag) ==
    IF "user_email" \in DOMAIN bag /\ bag["user_email"] # <<>>
    THEN GetUserByEmail(bag["user_email"])
    ELSE NoneRet

\* Database.get_all_users(): SELECT * FROM users ORDER BY created_at DESC,
\* in any order SQL allows.
GetAllUsers ==
    LET n == Len(users) IN
    { [i \in 1..n |-> users[f[i]]] : f \in
        {g \in Perms(n) : \A i, j \in 1..n :
            i < j => users[g[i]].created_at >= users[g[j]].created_at} }

\* Database.get_allowed_emails(): SELECT email FROM allowed_emails, with no
\* ORDER BY: in any order.
GetAllowedEmails ==
    LET n == Len(allowed) IN
    { [i \in 1..n |-> allowed[f[i]].email] : f \in Perms(n) }

\* What a route leaves in `last`.
RouteEvent(op, s, email, http) ==
    [op |-> op, sess |-> s, email |-> email, http |-> http]

\* The first redirect of require_auth and require_admin, or "pass".
Guards(bag) ==
    IF RequireAuth(bag) # "pass" THEN RequireAuth(bag) ELSE RequireAdmin(bag)

\* A variant of the route without its two guards.
AddEmailUnguarded(s, email) ==
    /\ allowed' = Committed(allowed,
                      InsertOrIgnoreAllowed(allowed, email, <<"system">>))
    /\ last' = RouteEvent("add_email", s, email, Ok)
    /\ UNCHANGED <<users, notes, noteSeq, now, session, call, volumeUp,
                 schema>>

\* POST /admin/emails/add: add_email(session, email).  user.email of a
\* None user raises AttributeError before anything is written.
AddEmail(s, email) ==
    /\ LET bag == session[s]
           user == GetCurrentUser(bag)
       IN
       IF Guards(bag) # "pass"
       THEN /\ last' = RouteEvent("add_email", s, email, Guards(bag))
            /\ UNCHANGED allowed
       ELSE IF user.kind # "User"
       THEN /\ last' = RouteEvent("add_email", s, email, ServerError)
            /\ UNCHANGED allowed
       ELSE /\ allowed' = Committed(allowed,
                  InsertOrIgnoreAllowed(allowed, email, user.user.email))
            /\ last' = RouteEvent("add_email", s, email,
                                  IF ConnExit(NoneRet) = NoneRet
                                  THEN Ok ELSE ServerError)
    /\ UNCHANGED <<users, notes, noteSeq, now, session, call, volumeUp,
                 schema>>

\* /admin/emails/{email}: remove_email(session, email)
RemoveEmail(s, email) ==
    /\ LET bag == session[s] IN
       IF Guards(bag) # "pass"
       THEN /\ last' = RouteEvent("remove_email", s, email, Guards(bag))
            /\ UNCHANGED allowed
       ELSE /\ allowed' = Committed(allowed, DeleteAllowed(allowed, email))
            /\ last' = RouteEvent("remove_email", s, email,
                                  IF ConnExit(NoneRet) = NoneRet
                                  THEN Ok ELSE ServerError)
    /\ UNCHANGED <<users, notes, noteSeq, now, session, call, volumeUp,
                 schema>>

\* GET /admin: admin_page(session), which shows get_all_users() and
\* get_allowed_emails().
AdminPage(s) ==
    /\ LET bag == session[s] IN
       IF Guards(bag) # "pass"
       THEN last' = [op |-> "admin_page", sess |-> s, http |-> Guards(bag)]
       ELSE IF GetCurrentUser(bag).kind = "raise"
       THEN last' = [op |-> "admin_page", sess |-> s, http |-> ServerError]
       ELSE \E us \in GetAllUsers, es \in GetAllowedEmails :
               last' = [op |-> "admin_page", sess |-> s, http |-> Ok,
                        all_users |-> us, allowed_emails |-> es]
    /\ UNCHANGED <<allowed, users, notes, noteSeq, now, session, call, volumeUp,
                 schema>>

\* The emails that log in and the emails the routes are given.
LoginEmails == { <<"A", "@", "x">> }
RouteEmails == { <<"A", "@", "x">>, <<"b", "@", "x">> }

NextRoutes ==
    \/ \E e \in LoginEmails, v \in BOOLEAN : GetAuthCheck(1, e, v)
    \/ SelectUser(1)
    \/ \E s \in Sessions : UpdateLogin(1, s)
    \/ \E s \in Sessions, n \in Names : InsertUser(1, s, n)
    \/ \E e \in LoginEmails : AddAllowedEmail(e, <<"system">>)
    \/ \E e \in LoginEmails, v \in BOOLEAN : SetAdmin(e, v)
    \/ \E s \in Sessions, e \in RouteEmails : AddEmail(s, e)
    \/ \E s \in Sessions, e \in RouteEmails : RemoveEmail(s, e)
    \/ \E s \in Sessions : AdminPage(s)

SpecRoutes == Init /\ [][NextRoutes]_vars

\* The session holds a user_email claim, and holds is_admin = true.
ClaimsEmail(bag) == "user_email" \in DOMAIN bag /\ bag["user_email"] # <<>>
ClaimsAdmin(bag) == "is_admin" \in DOMAIN bag /\ bag["is_admin"] = TRUE

\* The step taken last was a request to an admin route.
RouteLast(l) == l.op \in {"add_email", "remove_email", "admin_page"}

\* C17: the guards fail closed and depend on the session claims alone.
\* require_auth passes only with user_email set, require_admin only with
\* is_admin set and true, a session with no claims fails both; the redirect
\* a guarded route answers with is decided by the claims of its session
\* whatever the users table says, and a request stopped by a guard changes
\* no table and no session.
C17_GuardsFailClosed ==
    [][ /\ \A s \in Sessions :
              /\ RequireAuth(session[s]) = "pass" => ClaimsEmail(session[s])
              /\ RequireAdmin(session[s]) = "pass" => ClaimsAdmin(session[s])
              /\ session[s] = <<>>
                    => /\ RequireAuth(session[s]) # "pass"
                       /\ RequireAdmin(session[s]) # "pass"
        /\ RouteLast(last') =>
              LET bag == session[last'.sess] IN
              /\ (last'.http = "/login") <=> ~ClaimsEmail(bag)
              /\ (last'.http = "/error?msg=Admin+access+required")
                    <=> (ClaimsEmail(bag) /\ ~ClaimsAdmin(bag))
              /\ last'.http \in {"/login", "/error?msg=Admin+access+required"}
                    => /\ allowed' = allowed
                       /\ users' = users
                       /\ notes' = notes
                       /\ session' = session
      ]_vars

\* C17 witness: a route refused a session whose is_admin claim is false
\* though its user is an admin in the users table, while another session
\* holds no claim.
C17_Witness ==
    /\ RouteLast(last)
    /\ last.http = "/error?msg=Admin+access+required"
    /\ \E i \in DOMAIN users :
          /\ users[i].id = session[last.sess]["user_id"]
          /\ users[i].is_admin
    /\ \E t \in Sessions : session[t] = <<>>

\* C18: a request to add_email or remove_email changes allowed_emails, and
\* a request to admin_page shows the users, only when its session holds
\* user_email and is_admin = true; any other request is answered with a
\* redirect and leaves allowed_emails as it was.
C18_AdminRoutesGated ==
    [][ RouteLast(last') =>
          LET bag == session[last'.sess]
              passes == ClaimsEmail(bag) /\ ClaimsAdmin(bag)
          IN /\ allowed' # allowed => passes
             /\ "all_users" \in DOMAIN last' => passes
             /\ ~passes
                   => /\ allowed' = allowed
                      /\ last'.http \in
                            {"/login", "/error?msg=Admin+access+required"}
      ]_vars

\* C18 witness: an admin session added an email through the route (the row
\* carries the admin's email as added_by) while another session is logged
\* in without the admin claim.
C18_Witness ==
    /\ last.op = "add_email"
    /\ last.http = Ok
    /\ \E i \in DOMAIN allowed :
          /\ allowed[i].email = PyLower(last.email)
          /\ allowed[i].added_by = session[last.sess]["user_email"]
    /\ \E t \in Sessions : ClaimsEmail(session[t]) /\ ~ClaimsAdmin(session[t])

(***************************************************************************)
(* Startup on a fresh volume, with statements that may fail.  The          *)
(* connection is opened with sqlite3's default transaction control: an     *)
(* INSERT, UPDATE or DELETE opens the implicit transaction that            *)
(* conn.close() discards, while a CREATE TABLE opens none and is durable   *)
(* as soon as it has run.  Requests are served once a Database has been    *)
(* constructed, that is with all three tables in place.                    *)
(***************************************************************************)
\* The volume before the first start: an empty database file.
InitFresh ==
    /\ allowed = <<>>
    /\ users = <<>>
    /\ notes = <<>>
    /\ noteSeq = 0
    /\ now = 0
    /\ session = [s \in Sessions |-> <<>>]
    /\ call = [p \in Procs |-> Idle]
    /\ volumeUp = TRUE
    /\ schema = {}
    /\ last = [op |-> "fresh"]

\* _init_db whose k-th CREATE TABLE raises (the file is locked, the disk is
\* full): the statements before it have run, the exception leaves the
\* `with` block past conn.commit(), conn.close() runs and __init__ raises.
InitDbFailing(k) ==
    /\ schema' = schema \cup {TableOrder[i] : i \in 1..(k - 1)}
    /\ last' = [op |-> "init_db", failed_at |-> k,
                ret |-> Raised("OperationalError")]
    /\ UNCHANGED <<allowed, users, notes, noteSeq, now, session, call, volumeUp>>

NextStartup ==
    \/ InitDb
    \/ \E k \in DOMAIN TableOrder : InitDbFailing(k)
    \/ schema = AllTables /\ Next

SpecStartup == InitFresh /\ [][NextStartup]_vars

\* The handlers that hold an open connection: the second connection of
\* get_or_create_user, from its SELECT to the end of its `with` block.
OpenConnections == {p \in Procs : call[p].pc \in {"update", "insert"}}

\* The call that made the last step ended with the exception of one of its
\* statements.
StatementFailed(l) ==
    /\ "ret" \in DOMAIN l
    /\ l.ret.kind = "raise"
    /\ l.ret.exc \in {"IntegrityError", "OperationalError"}

\* C22: when a statement of a Database operation fails the failure reaches
\* the caller, nothing of the operation is committed (no table row and no
\* table of the schema is added or changed) and its connection is closed;
\* the connection of an operation that ends without failure is closed too.
C22_FailedOperationCommitsNothing ==
    [][ /\ StatementFailed(last')
              => /\ allowed' = allowed
                 /\ users' = users
                 /\ notes' = notes
                 /\ schema' = schema
        /\ ("ret" \in DOMAIN last' /\ last'.ret.kind # "pending")
              => /\ OpenConnections' \subseteq OpenConnections
                 /\ last'.op = "get_auth"
                       /\ last'.step \in {"insert", "update"}
                       => OpenConnections' # OpenConnections
      ]_vars

(***************************************************************************)
(* The notes routes.  Each is one request: require_auth, get_current_user  *)
(* and the notes method, called with user.id.  user.id of a None user      *)
(* raises AttributeError before the notes method is called.                *)
(***************************************************************************)
\* POST /notes/add: add_note(session, content)
NotesAdd(s, content) ==
    /\ noteSeq < MaxStoreNotes
    /\ LET bag == session[s]
           user == GetCurrentUser(bag)
       IN
       IF RequireAuth(bag) # "pass"
       THEN /\ last' = [op |-> "notes_add", sess |-> s,
                        http |-> RequireAuth(bag)]
            /\ UNCHANGED <<notes, noteSeq>>
       ELSE IF user.kind # "User"
       THEN /\ last' = [op |-> "notes_add", sess |-> s, http |-> ServerError]
            /\ UNCHANGED <<notes, noteSeq>>
       ELSE /\ notes' = Committed(notes,
                            InsertNote(notes, noteSeq, user.user.id, content))
            /\ noteSeq' = Committed(noteSeq, noteSeq + 1)
            /\ last' = [op |-> "notes_add", sess |-> s,
                        http |-> IF volumeUp THEN Ok ELSE ServerError,
                        note_id |-> noteSeq + 1]
    /\ UNCHANGED <<allowed, users, now, session, call, volumeUp, schema>>

\* DELETE /notes/{note_id}: delete_note(session, note_id)
NotesDelete(s, note_id) ==
    /\ LET bag == session[s]
           user == GetCurrentUser(bag)
       IN
       IF RequireAuth(bag) # "pass"
       THEN /\ last' = [op |-> "notes_delete", sess |-> s,
                        http |-> RequireAuth(bag)]
            /\ UNCHANGED notes
       ELSE IF user.kind # "User"
       THEN /\ last' = [op |-> "notes_delete", sess |-> s,
                        http |-> ServerError]
            /\ UNCHANGED notes
       ELSE LET hit == NoteRowsOwned(notes, note_id, user.user.id) IN
            /\ notes' = Committed(notes, SelectSeq(notes, LAMBDA r :
                                        \A i \in hit : notes[i].id # r.id))
            /\ last' = [op |-> "notes_delete", sess |-> s,
                        http |-> IF volumeUp THEN Ok ELSE ServerError]
    /\ UNCHANGED <<allowed, users, noteSeq, now, session, call, volumeUp,
                   schema>>

\* GET /notes: notes_page(session), which shows get_notes(user.id).
NotesPage(s) ==
    /\ LET bag == session[s]
           user == GetCurrentUser(bag)
       IN
       IF RequireAuth(bag) # "pass"
       THEN last' = [op |-> "notes_page", sess |-> s,
                     http |-> RequireAuth(bag)]
       ELSE IF user.kind # "User"
       THEN last' = [op |-> "notes_page", sess |-> s, http |-> ServerError]
       ELSE \E rows \in NotesOrders(notes, user.user.id) :
               last' = [op |-> "notes_page", sess |-> s,
                        http |-> IF volumeUp THEN Ok ELSE ServerError,
                        user_notes |-> rows]
    /\ UNCHANGED <<allowed, users, notes, noteSeq, now, session, call,
                   volumeUp, schema>>

(***************************************************************************)
(* The protected routes: the admin routes and the notes routes, with       *)
(* logins of one user into every session and set_admin in between.         *)
(***************************************************************************)
NextProtected ==
    \/ \E e \in LoginEmails : GetAuthCheck(1, e, TRUE)
    \/ SelectUser(1)
    \/ \E s \in Sessions : UpdateLogin(1, s)
    \/ \E s \in Sessions, n \in Names : InsertUser(1, s, n)
    \/ \E e \in LoginEmails : AddAllowedEmail(e, <<"system">>)
    \/ \E e \in LoginEmails, v \in BOOLEAN : SetAdmin(e, v)
    \/ \E s \in Sessions, e \in LoginEmails : AddEmail(s, e)
    \/ \E s \in Sessions, e \in LoginEmails : RemoveEmail(s, e)
    \/ \E s \in Sessions : AdminPage(s)
    \/ \E s \in Sessions, c \in Contents : NotesAdd(s, c)
    \/ \E s \in Sessions, n \in 1..MaxStoreNotes : NotesDelete(s, n)
    \/ \E s \in Sessions : NotesPage(s)

SpecProtected == Init /\ [][NextProtected]_vars

\* The step taken last was a request to a route that uses the current user.
ProtectedLast(l) ==
    l.op \in {"notes_page", "notes_add", "notes_delete", "admin_page",
              "add_email"}

\* C24: in every reachable state get_current_user of a session that holds
\* user_email returns a User, the one whose id and email the session
\* holds, whatever removals from the allow-list, set_admin calls, logins
\* and note requests came after the login; so no request to notes_page,
\* add_note, delete_note, admin_page or add_email fails on a missing user.
C24_SessionUserExists ==
    /\ \A s \in Sessions :
          ClaimsEmail(session[s]) =>
              LET u == GetCurrentUser(session[s]) IN
              /\ u.kind = "User"
              /\ u.user.id = session[s]["user_id"]
              /\ u.user.email = session[s]["user_email"]
    /\ ProtectedLast(last) => last.http # ServerError

\* C24 witness: a session added a note after its user's email had been
\* removed from the allow-list and the user had been made admin.
C24_Witness ==
    /\ last.op = "notes_add"
    /\ last.http = Ok
    /\ ~IsEmailAllowed(session[last.sess]["user_email"])
    /\ \E i \in DOMAIN users :
          /\ users[i].id = session[last.sess]["user_id"]
          /\ users[i].is_admin
    /\ \E i \in DOMAIN notes : notes[i].id = last.note_id

(***************************************************************************)
(* The notes of two users: logins of both into every session and the       *)
(* notes routes.                                                           *)
(***************************************************************************)
NextApp ==
    \/ \E e \in SessionEmails : GetAuthCheck(1, e, TRUE)
    \/ SelectUser(1)
    \/ \E s \in Sessions : UpdateLogin(1, s)
    \/ \E s \in Sessions, n \in Names : InsertUser(1, s, n)
    \/ \E e \in SessionEmails : AddAllowedEmail(e, <<"system">>)
    \/ \E s \in Sessions, c \in Contents : NotesAdd(s, c)
    \/ \E s \in Sessions, n \in 1..MaxStoreNotes : NotesDelete(s, n)
    \/ \E s \in Sessions : NotesPage(s)

SpecApp == Init /\ [][NextApp]_vars


\* The users rows a note row refers to.
NoteOwners(note) == {j \in DOMAIN users' : users'[j].id = note.user_id}

\* C25: after every step of any sequence of logins and notes requests each
\* notes row has a user_id that is the id of exactly one users row, a row
\* keeps its user_id as long as it exists, and a row added by a request to
\* /notes/add has the id (and the email) held by the session that made
\* the request.
C25_NotesBelongToUsers ==
    [][ /\ \A i \in DOMAIN notes' : Cardinality(NoteOwners(notes'[i])) = 1
        /\ \A i \in DOMAIN notes', k \in DOMAIN notes :
              notes'[i].id = notes[k].id =>
                  notes'[i].user_id = notes[k].user_id
        /\ \A i \in DOMAIN notes' :
              (\A k \in DOMAIN notes : notes[k].id # notes'[i].id) =>
                  /\ last'.op = "notes_add"
                  /\ last'.http = Ok
                  /\ notes'[i].id = last'.note_id
                  /\ notes'[i].user_id = session[last'.sess]["user_id"]
                  /\ \A j \in NoteOwners(notes'[i]) :
                        users'[j].email = session[last'.sess]["user_email"]
      ]_vars

\* C25 witness: a note added through the session of the second user while
\* another session is that of the first user.
C25_Witness ==
    /\ last.op = "notes_add"
    /\ last.http = Ok
    /\ \E i \in DOMAIN notes :
          /\ notes[i].id = last.note_id
          /\ notes[i].user_id = session[last.sess]["user_id"]
          /\ notes[i].user_id # users[1].id
    /\ \E s \in Sessions \ {last.sess} :
          /\ ClaimsEmail(session[s])
          /\ session[s]["user_id"] = users[1].id

=============================================================================
